---- MODULE Spec2Model ----
(***************************************************************************)
(* Leaf Analyzer (src/app.py): a Streamlit script.  Every user interaction *)
(* reruns the script top to bottom; st.session_state survives the reruns,  *)
(* everything else is rebuilt.  The model has two parts:                   *)
(*   - the session: the three session_state fields, the two input widgets  *)
(*     and the four handler blocks of the script (buttons, input widgets,  *)
(*     captured-image display / close, submit);                            *)
(*   - the text functions of the submit handler (name extraction and the   *)
(*     category segmentation loop), on strings modelled as sequences of    *)
(*     one-character strings with Python's 0-based find / slice / strip.   *)
(***************************************************************************)
EXTENDS Integers, Sequences, FiniteSets, TLC

VARIABLES
    upload_method,    \* st.session_state.upload_method: "none" | "file" | "camera"
    show_camera,      \* st.session_state.show_camera
    captured_image,   \* st.session_state.captured_image (NoFile or a file object)
    file_widget,      \* value held by the st.file_uploader widget
    camera_widget,    \* value held by the st.camera_input widget
    screen,           \* input widgets rendered by the current / last run
    event,            \* the interaction that triggered the current / last run
    pc,               \* position of the script run
    uploaded_file,    \* the script's local uploaded_file
    image_data,       \* the script's local image_data (NoPayload or the payload list)
    api_calls,        \* model.generate_content calls made by the run
    api_result,       \* "not_called" | "raised" | "no_text" | "text"
    notices,          \* st.error notices shown by the run, in order
    shown,            \* result elements rendered by the run
    response_text,    \* the script's local response_text
    leaf_name,        \* the script's local leaf_name
    scientific_name,  \* the script's local scientific_name
    response_dict     \* the script's local response_dict

vars ==
    << upload_method, show_camera, captured_image, file_widget, camera_widget,
       screen, event, pc, uploaded_file, image_data, api_calls, api_result,
       notices, shown, response_text, leaf_name, scientific_name, response_dict >>

session == << upload_method, show_camera, captured_image >>

results == << response_text, leaf_name, scientific_name, response_dict >>

-----------------------------------------------------------------------------
(* Bounds of the model *)

\* longest response text, in tokens, given to the text functions
MaxTokens == 4

\* longest response text, in tokens, the API returns in a session
MaxApiTokens == 1

\* number of distinct pictures the camera can take
NumPictures == 1

\* number of distinct files the user can choose
NumFiles == 1

-----------------------------------------------------------------------------
(* Strings *)

LeafNameLabel ==
    << "L", "e", "a", "f", " ", "N", "a", "m", "e" >>

ScientificNameLabel ==
    << "S", "c", "i", "e", "n", "t", "i", "f", "i", "c", " ", "N", "a", "m", "e" >>

MorphologicalFeatures ==
    << "M", "o", "r", "p", "h", "o", "l", "o", "g", "i", "c", "a", "l", " ",
       "F", "e", "a", "t", "u", "r", "e", "s" >>

ChemicalComposition ==
    << "C", "h", "e", "m", "i", "c", "a", "l", " ",
       "C", "o", "m", "p", "o", "s", "i", "t", "i", "o", "n" >>

MedicinalProperties ==
    << "M", "e", "d", "i", "c", "i", "n", "a", "l", " ",
       "P", "r", "o", "p", "e", "r", "t", "i", "e", "s" >>

DiseasesAndConditions ==
    << "D", "i", "s", "e", "a", "s", "e", "s", " ", "a", "n", "d", " ",
       "C", "o", "n", "d", "i", "t", "i", "o", "n", "s" >>

Usage ==
    << "U", "s", "a", "g", "e" >>

Verdict ==
    << "V", "e", "r", "d", "i", "c", "t" >>

NotAvailable ==
    << "N", "/", "A" >>

Colon == << ":" >>

NewLine == << "\n" >>

Star == "*"

categories ==
    << MorphologicalFeatures, ChemicalComposition, MedicinalProperties,
       DiseasesAndConditions, Usage, Verdict >>

\* characters str.strip() removes (those the response alphabet has)
Whitespace == {" ", "\n", "\t", "\r"}

\* sub occurs in s at 0-based index i
MatchAt(s, sub, i) ==
    /\ i >= 0
    /\ i + Len(sub) <= Len(s)
    /\ \A k \in 1..Len(sub) : s[i + k] = sub[k]

RECURSIVE FindFrom(_, _, _)
FindFrom(s, sub, i) ==
    IF i + Len(sub) > Len(s) THEN -1
    ELSE IF MatchAt(s, sub, i) THEN i
    ELSE FindFrom(s, sub, i + 1)

\* s.find(sub, start) for start >= 0
PyFind(s, sub, start) == FindFrom(s, sub, start)

\* sub in s
PyIn(sub, s) == PyFind(s, sub, 0) # -1

\* an index of a slice, as Python normalises it
SliceIndex(s, i) ==
    IF i < 0 THEN (IF Len(s) + i < 0 THEN 0 ELSE Len(s) + i)
    ELSE IF i > Len(s) THEN Len(s) ELSE i

\* s[a:b]
PySlice(s, a, b) == SubSeq(s, SliceIndex(s, a) + 1, SliceIndex(s, b))

RECURSIVE LStrip(_, _)
LStrip(s, chars) ==
    IF s # << >> /\ Head(s) \in chars THEN LStrip(Tail(s), chars) ELSE s

RECURSIVE RStrip(_, _)
RStrip(s, chars) ==
    IF s # << >> /\ s[Len(s)] \in chars
    THEN RStrip(SubSeq(s, 1, Len(s) - 1), chars) ELSE s

\* s.strip(chars)
PyStripChars(s, chars) == RStrip(LStrip(s, chars), chars)

\* s.strip()
PyStrip(s) == PyStripChars(s, Whitespace)

-----------------------------------------------------------------------------
(* The text functions of the submit handler *)

\* lines 123-126 / 128-131: the value reported for a name label
ExtractName(text, label) ==
    IF PyIn(label, text)
    THEN LET name_start == PyFind(text, label, 0) + Len(label \o Colon)
             name_end   == PyFind(text, NewLine, name_start)
         IN  PyStripChars(PyStrip(PySlice(text, name_start, name_end)), {Star})
    ELSE NotAvailable

\* lines 148-152: the inner loop, from categories[k] on, with next_start_index = acc
RECURSIVE InnerLoop(_, _, _, _, _)
InnerLoop(text, category, start_index, k, acc) ==
    IF k > Len(categories) THEN acc
    ELSE LET next_start ==
                 PyFind(text, categories[k], start_index + Len(category))
         IN  InnerLoop(text, category, start_index, k + 1,
                       IF next_start # -1 /\ next_start < acc
                       THEN next_start ELSE acc)

\* the inner loop, had it skipped the category's own label
NextStartIndexOtherLabels(text, category, start_index) ==
    LET found == { PyFind(text, categories[k], start_index + Len(category)) :
                     k \in { j \in 1..Len(categories) : categories[j] # category } }
                 \ {-1}
    IN  IF found = {} THEN Len(text)
        ELSE CHOOSE p \in found : \A q \in found : p <= q

\* the inner loop, had its comparison been inverted: next_start_index is
\* never lowered
NextStartIndexTextEnd(text, category, start_index) == Len(text)

\* lines 148-152: next_start_index after the inner loop
NextStartIndex(text, category, start_index) ==
    InnerLoop(text, category, start_index, 1, Len(text))

\* line 153: the value stored for a found category
CategoryContent(text, category, start_index) ==
    PyStrip(PySlice(text, start_index + Len(category) + 1,
                    NextStartIndex(text, category, start_index)))

\* one iteration of the outer loop, had it stored an empty content for a
\* category it does not find
LoopBodyRecordsAbsent(text, category, dict) ==
    LET start_index == PyFind(text, category, 0)
    IN  IF start_index # -1
        THEN (category :> CategoryContent(text, category, start_index)) @@ dict
        ELSE (category :> << >>) @@ dict

\* lines 146-153: one iteration of the outer loop
LoopBody(text, category, dict) ==
    LET start_index == PyFind(text, category, 0)
    IN  IF start_index # -1
        THEN (category :> CategoryContent(text, category, start_index)) @@ dict
        ELSE dict

EmptyDict == [c \in {} |-> << >>]

\* lines 145-153: the outer loop, from categories[k] on
RECURSIVE OuterLoop(_, _, _)
OuterLoop(text, k, dict) ==
    IF k > Len(categories) THEN dict
    ELSE OuterLoop(text, k + 1, LoopBody(text, categories[k], dict))

\* lines 141-153
ParseCategories(text) == OuterLoop(text, 1, EmptyDict)

-----------------------------------------------------------------------------
(* Response texts: sequences of tokens, a token a label, a label in another *)
(* case or one character                                                    *)

\* a label in another case
LowerCaseUsage ==
    << "u", "s", "a", "g", "e" >>

ResponseTokens ==
    { LeafNameLabel, ScientificNameLabel, MedicinalProperties, Usage, Verdict,
      LowerCaseUsage, << ":" >>, << " " >>, << "*" >>, << "\n" >>, << "a" >> }

RECURSIVE Flatten(_)
Flatten(ts) == IF ts = << >> THEN << >> ELSE Head(ts) \o Flatten(Tail(ts))

\* the token sequences of at most n tokens
TokenSeqs(n) == UNION { [1..k -> ResponseTokens] : k \in 0..n }

Texts(n) == { Flatten(ts) : ts \in TokenSeqs(n) }

-----------------------------------------------------------------------------
(* Files, payloads and notices *)

NoFile == [type |-> "none", data |-> << >>]

\* files the uploader accepts (type = ["jpg", "jpeg", "png"])
Files == { [type |-> "image/png", data |-> << "file", i >>] : i \in 1..NumFiles }

\* pictures the camera takes
Pictures == { [type |-> "image/jpeg", data |-> << "picture", i >>] : i \in 1..NumPictures }

NoPayload == << >>

\* lines 26-32: the value input_image_setup returns for a file
input_image_setup(file) == << [mime_type |-> file.type, data |-> file.data] >>

NoImageNotice == "No image provided. Please upload an image or take a picture."

ApiErrorNotice == "Error in API call"

InvalidResponseNotice == "Failed to get a valid response from the API."

NoFileUploadedNotice == "An error occurred: No file uploaded"

\* what model.generate_content can do: raise, return a response without a
\* text attribute, or return a response with a text
ApiOutcomes ==
    { [kind |-> "raised", text |-> << >>], [kind |-> "no_text", text |-> << >>] }
    \cup { [kind |-> "text", text |-> t] : t \in Texts(MaxApiTokens) }

\* lines 17-24: get_gemini_response returns None when the call raised
get_gemini_response(outcome) ==
    IF outcome.kind = "raised" THEN "None" ELSE outcome.kind

\* line 113, had it tested only response is not None
ValidResponseNotNone(response) == response # "None"

\* line 113: response is not None and hasattr(response, 'text')
ValidResponse(response) == response # "None" /\ response = "text"

\* lines 104-108, had the elif been an else
SelectImageNoElse(uploaded, captured) ==
    IF uploaded # NoFile THEN "uploaded_file" ELSE "captured_image"

\* lines 104-108: which branch supplies the image
SelectImage(uploaded, captured) ==
    IF uploaded # NoFile THEN "uploaded_file"
    ELSE IF captured # NoFile THEN "captured_image"
    ELSE "none"

-----------------------------------------------------------------------------
(* The session: one script run per user interaction *)

Init ==
    /\ upload_method = "none"
    /\ show_camera = FALSE
    /\ captured_image = NoFile
    /\ file_widget = NoFile
    /\ camera_widget = NoFile
    /\ screen = {}
    /\ event = "page_load"
    /\ pc = "idle"
    /\ uploaded_file = NoFile
    /\ image_data = NoPayload
    /\ api_calls = 0
    /\ api_result = "not_called"
    /\ notices = << >>
    /\ shown = {}
    /\ response_text = << >>
    /\ leaf_name = NotAvailable
    /\ scientific_name = NotAvailable
    /\ response_dict = EmptyDict

\* lines 56-61, had the upload button left show_camera alone
ButtonsBlockKeepsCamera(e) ==
    IF e = "upload_button"
    THEN /\ upload_method' = "file"
         /\ UNCHANGED show_camera
    ELSE IF e = "camera_button"
    THEN /\ upload_method' = "camera"
         /\ show_camera' = TRUE
    ELSE UNCHANGED << upload_method, show_camera >>

\* lines 56-61: the two mode buttons
ButtonsBlock(e) ==
    IF e = "upload_button"
    THEN /\ upload_method' = "file"
         /\ show_camera' = FALSE
    ELSE IF e = "camera_button"
    THEN /\ upload_method' = "camera"
         /\ show_camera' = TRUE
    ELSE UNCHANGED << upload_method, show_camera >>

\* an interaction starts a run: the locals are fresh, lines 41-61 execute
StartRun(e) ==
    /\ pc = "idle"
    /\ event' = e
    /\ ButtonsBlock(e)
    /\ pc' = "widgets"
    /\ screen' = {}
    /\ uploaded_file' = NoFile
    /\ image_data' = NoPayload
    /\ api_calls' = 0
    /\ api_result' = "not_called"
    /\ notices' = << >>
    /\ shown' = {}
    /\ response_text' = << >>
    /\ leaf_name' = NotAvailable
    /\ scientific_name' = NotAvailable
    /\ response_dict' = EmptyDict
    /\ UNCHANGED captured_image

\* line 44
ClickUpload ==
    /\ StartRun("upload_button")
    /\ UNCHANGED << file_widget, camera_widget >>

\* line 45
ClickCamera ==
    /\ StartRun("camera_button")
    /\ UNCHANGED << file_widget, camera_widget >>

\* line 80: the button is on the screen only if the last run rendered it
ClickClose ==
    /\ "close" \in screen
    /\ StartRun("close_button")
    /\ UNCHANGED << file_widget, camera_widget >>

\* line 86
ClickAnalyze ==
    /\ StartRun("analyze_button")
    /\ UNCHANGED << file_widget, camera_widget >>

\* line 41
EditPrompt ==
    /\ StartRun("text_input")
    /\ UNCHANGED << file_widget, camera_widget >>

\* line 66: the user picks a file in the uploader
ChooseFile ==
    /\ "uploader" \in screen
    /\ \E f \in Files : file_widget' = f
    /\ StartRun("file_uploader")
    /\ UNCHANGED camera_widget

\* line 66: the user removes the file from the uploader
RemoveFile ==
    /\ "uploader" \in screen
    /\ file_widget # NoFile
    /\ file_widget' = NoFile
    /\ StartRun("file_uploader")
    /\ UNCHANGED camera_widget

\* line 71: the user takes a picture
TakePicture ==
    /\ "camera" \in screen
    /\ camera_widget = NoFile
    /\ \E p \in Pictures : camera_widget' = p
    /\ StartRun("camera_input")
    /\ UNCHANGED file_widget

\* line 71: the user clears the picture in the camera widget
ClearPicture ==
    /\ "camera" \in screen
    /\ camera_widget # NoFile
    /\ camera_widget' = NoFile
    /\ StartRun("camera_input")
    /\ UNCHANGED file_widget

\* lines 70-74, had a capture left the camera visible
CameraBlockKeepsCamera ==
    IF camera_widget # NoFile
    THEN /\ captured_image' = camera_widget
         /\ UNCHANGED show_camera
    ELSE UNCHANGED << captured_image, show_camera >>

\* lines 70-74: the camera branch
CameraBlock ==
    IF camera_widget # NoFile
    THEN /\ captured_image' = camera_widget
         /\ show_camera' = FALSE
    ELSE UNCHANGED << captured_image, show_camera >>

\* lines 64-74: the uploader or the camera, by the mode
InputWidgets ==
    /\ pc = "widgets"
    /\ pc' = "display"
    /\ IF upload_method = "file"
       THEN /\ uploaded_file' = file_widget
            /\ screen' = screen \cup {"uploader"}
            /\ UNCHANGED << captured_image, show_camera >>
       ELSE IF upload_method = "camera" /\ show_camera
       THEN /\ uploaded_file' = NoFile
            /\ screen' = screen \cup {"camera"}
            /\ CameraBlock
       ELSE /\ uploaded_file' = NoFile
            /\ UNCHANGED << screen, captured_image, show_camera >>
    /\ UNCHANGED << upload_method, file_widget, camera_widget, event, image_data,
                    api_calls, api_result, notices, shown, results >>

\* lines 80-81: the close button, rendered with the captured image
CloseBlock ==
    IF event = "close_button"
    THEN captured_image' = NoFile
    ELSE UNCHANGED captured_image

\* lines 77-81: the captured image and its close button
DisplayCaptured ==
    /\ pc = "display"
    /\ pc' = "submit"
    /\ IF captured_image # NoFile
       THEN /\ screen' = screen \cup {"close"}
            /\ CloseBlock
       ELSE UNCHANGED << screen, captured_image >>
    /\ UNCHANGED << upload_method, show_camera, file_widget, camera_widget, event,
                    uploaded_file, image_data, api_calls, api_result, notices,
                    shown, results >>

\* the run is over: a widget the run did not render loses its value
EndRun ==
    /\ pc' = "idle"
    /\ file_widget' = IF "uploader" \in screen THEN file_widget ELSE NoFile
    /\ camera_widget' = IF "camera" \in screen THEN camera_widget ELSE NoFile
    /\ UNCHANGED << session, screen, event, uploaded_file >>

\* line 102: the run was not started by the analyze button
NoSubmit ==
    /\ pc = "submit"
    /\ event # "analyze_button"
    /\ EndRun
    /\ UNCHANGED << image_data, api_calls, api_result, notices, shown, results >>

\* lines 112-159: the API call and what follows it
CallAndRender(outcome) ==
    LET response == get_gemini_response(outcome)
        api_notice == IF outcome.kind = "raised" THEN << ApiErrorNotice >> ELSE << >>
    IN  /\ api_calls' = api_calls + 1
        /\ api_result' = outcome.kind
        /\ IF ValidResponse(response)
           THEN /\ notices' = api_notice
                /\ response_text' = outcome.text
                /\ leaf_name' = ExtractName(outcome.text, LeafNameLabel)
                /\ scientific_name' = ExtractName(outcome.text, ScientificNameLabel)
                /\ response_dict' = ParseCategories(outcome.text)
                /\ shown' = {"subheader", "names", "sections"}
           ELSE /\ notices' = api_notice \o << InvalidResponseNotice >>
                /\ UNCHANGED << shown, results >>

\* lines 102-161: the analyze button
SubmitHandler ==
    /\ pc = "submit"
    /\ event = "analyze_button"
    /\ EndRun
    /\ LET source == SelectImage(uploaded_file, captured_image)
           file == IF source = "uploaded_file" THEN uploaded_file ELSE captured_image
       IN  IF source = "none"
           THEN /\ notices' = << NoImageNotice >>
                /\ UNCHANGED << image_data, api_calls, api_result, shown, results >>
           ELSE IF file = NoFile
           THEN /\ notices' = << NoFileUploadedNotice >>
                /\ UNCHANGED << image_data, api_calls, api_result, shown, results >>
           ELSE /\ image_data' = input_image_setup(file)
                /\ \E outcome \in ApiOutcomes : CallAndRender(outcome)

Next ==
    \/ ClickUpload
    \/ ClickCamera
    \/ ClickClose
    \/ ClickAnalyze
    \/ EditPrompt
    \/ ChooseFile
    \/ RemoveFile
    \/ TakePicture
    \/ ClearPicture
    \/ InputWidgets
    \/ DisplayCaptured
    \/ NoSubmit
    \/ SubmitHandler

Spec == Init /\ [][Next]_vars

-----------------------------------------------------------------------------
(* The text functions alone, on every response text of at most MaxTokens tokens *)

TextInit ==
    /\ upload_method = "none"
    /\ show_camera = FALSE
    /\ captured_image = NoFile
    /\ file_widget = NoFile
    /\ camera_widget = NoFile
    /\ screen = {}
    /\ event = "analyze_button"
    /\ pc = "response"
    /\ uploaded_file = NoFile
    /\ image_data = NoPayload
    /\ api_calls = 1
    /\ api_result = "text"
    /\ notices = << >>
    /\ shown = {}
    /\ \E ts \in TokenSeqs(MaxTokens) : response_text = Flatten(ts)
    /\ leaf_name = NotAvailable
    /\ scientific_name = NotAvailable
    /\ response_dict = EmptyDict

\* lines 121-153: the names, then the categories
ParseResponse ==
    /\ pc = "response"
    /\ pc' = "parsed"
    /\ leaf_name' = ExtractName(response_text, LeafNameLabel)
    /\ scientific_name' = ExtractName(response_text, ScientificNameLabel)
    /\ response_dict' = ParseCategories(response_text)
    /\ UNCHANGED << session, file_widget, camera_widget, screen, event,
                    uploaded_file, image_data, api_calls, api_result, notices,
                    shown, response_text >>

TextNext == ParseResponse

TextSpec == TextInit /\ [][TextNext]_vars

-----------------------------------------------------------------------------
(* Properties of the text functions (TextSpec) *)

\* label occurs in text at 0-based position p
OccursAt(text, label, p) ==
    /\ p >= 0
    /\ p + Len(label) <= Len(text)
    /\ label # << >> => text[p + 1] = label[1]
    /\ SubSeq(text, p + 1, p + Len(label)) = label

Occurrences(text, label) == { p \in 0..Len(text) : OccursAt(text, label, p) }

Occurs(text, label) == Occurrences(text, label) # {}

Least(S) == CHOOSE p \in S : \A q \in S : p <= q

FirstOccurrence(text, label) == Least(Occurrences(text, label))

CategorySet == { categories[k] : k \in 1..Len(categories) }

Found(text) == { c \in CategorySet : Occurs(text, c) }

Parsed == pc = "parsed"

\* C1: a category label is a key of the segmenter's result exactly when it
\* occurs in the response text as a literal substring; a label that does not
\* occur is absent from the result, so a text without labels gives the empty
\* mapping.
C1_KeysAreTheLabelsPresent ==
    Parsed =>
        /\ DOMAIN response_dict \subseteq CategorySet
        /\ \A c \in CategorySet : c \in DOMAIN response_dict <=> Occurs(response_text, c)
        /\ (Found(response_text) = {} => response_dict = EmptyDict)

\* C1: a text in which one label occurs with a content and another label
\* occurs only in another case
C1_PresentAndOtherCaseAbsent ==
    /\ Parsed
    /\ Verdict \in DOMAIN response_dict
    /\ response_dict[Verdict] # << >>
    /\ Occurs(response_text, LowerCaseUsage)
    /\ Usage \notin DOMAIN response_dict

\* the end of a found category's span as C2 states it: the least first
\* occurrence, over the OTHER labels, strictly after start + len(label)
EndAtOtherLabelStrictlyAfter(text, category) ==
    LET start    == FirstOccurrence(text, category)
        After(c) == { p \in Occurrences(text, c) : p > start + Len(category) }
        ends     == { Least(After(c)) :
                        c \in { d \in CategorySet \ {category} : After(d) # {} } }
    IN  IF ends = {} THEN Len(text) ELSE Least(ends)

\* the end of a found category's span: the least position at or after
\* start + len(label) at which any category label occurs, its own included
EndAtAnyLabelAtOrAfter(text, category) ==
    LET start == FirstOccurrence(text, category)
        ends  == { p \in (start + Len(category))..Len(text) :
                     \E c \in CategorySet : OccursAt(text, c, p) }
    IN  IF ends = {} THEN Len(text) ELSE Least(ends)

\* C2 as stated: the span of a found category ends at the nearest first
\* occurrence of another label strictly after start + len(label), or at the
\* end of the text; a second occurrence of the same label does not end it.
C2_EndAtNextOtherLabel ==
    Parsed =>
        \A c \in Found(response_text) :
            LET start == FirstOccurrence(response_text, c)
                end   == EndAtOtherLabelStrictlyAfter(response_text, c)
            IN  /\ NextStartIndex(response_text, c, start) = end
                /\ c \in DOMAIN response_dict
                /\ response_dict[c] =
                       PyStrip(PySlice(response_text, start + Len(c) + 1, end))

\* C2 amended: the span of a found category ends at the nearest occurrence of
\* any category label, its own included, at or after start + len(label), or at
\* the end of the text when there is none.
C2_EndAtNextLabelOccurrence ==
    Parsed =>
        \A c \in Found(response_text) :
            LET start == FirstOccurrence(response_text, c)
                end   == EndAtAnyLabelAtOrAfter(response_text, c)
            IN  /\ NextStartIndex(response_text, c, start) = end
                /\ c \in DOMAIN response_dict
                /\ response_dict[c] =
                       PyStrip(PySlice(response_text, start + Len(c) + 1, end))

\* C2: a second occurrence of the same label ends a non-empty span
C2_RepeatedLabelEndsSpan ==
    /\ Parsed
    /\ Usage \in DOMAIN response_dict
    /\ response_dict[Usage] # << >>
    /\ LET end == EndAtAnyLabelAtOrAfter(response_text, Usage)
       IN  /\ end < Len(response_text)
           /\ OccursAt(response_text, Usage, end)

\* C3 as stated: the content of a found category is the text from just after
\* the label and one more character to the computed end, without leading and
\* trailing whitespace and without surrounding "*" characters.
C3_ContentTrimmedOfStars ==
    Parsed =>
        \A c \in Found(response_text) :
            LET start == FirstOccurrence(response_text, c)
                raw   == PySlice(response_text, start + Len(c) + 1,
                                 NextStartIndex(response_text, c, start))
            IN  /\ c \in DOMAIN response_dict
                /\ response_dict[c] = PyStripChars(PyStrip(raw), {Star})

\* the index range lo..(hi - 1) of the raw span of a found category
\* (line 153's slice)
SpanRange(text, category) ==
    LET start == PyFind(text, category, 0)
        lo    == SliceIndex(text, start + Len(category) + 1)
        hi    == SliceIndex(text, NextStartIndex(text, category, start))
    IN  [lo |-> lo, hi |-> IF hi < lo THEN lo ELSE hi]

\* C4: every extracted span is a contiguous substring of the response text
\* (the trimmed content lies inside the index range of its span), and the
\* index ranges of the spans of two different categories never overlap.
C4_SpansInsideTextAndDisjoint ==
    Parsed =>
        \A c \in DOMAIN response_dict :
            LET span == SpanRange(response_text, c)
            IN  /\ \E p \in span.lo..span.hi :
                       /\ p + Len(response_dict[c]) <= span.hi
                       /\ OccursAt(response_text, response_dict[c], p)
                /\ span.lo < span.hi =>
                       \A d \in DOMAIN response_dict \ {c} :
                           LET other == SpanRange(response_text, d)
                           IN  \/ other.lo = other.hi
                               \/ span.hi <= other.lo
                               \/ other.hi <= span.lo

\* C4: two categories found out of the declared order, the later one with a
\* content
C4_TwoCategoriesOutOfOrder ==
    /\ Parsed
    /\ {Usage, Verdict} \subseteq DOMAIN response_dict
    /\ FirstOccurrence(response_text, Verdict) < FirstOccurrence(response_text, Usage)
    /\ response_dict[Usage] # << >>

NameLabels == {LeafNameLabel, ScientificNameLabel}

\* the value of a name label by the category rule: the content after the
\* label and one character, up to the nearest later occurrence of any label
\* or the end of the text, trimmed
NameByCategoryRule(text, label) ==
    IF ~Occurs(text, label) THEN NotAvailable
    ELSE LET start == FirstOccurrence(text, label)
             ends  == { p \in (start + Len(label))..Len(text) :
                          \E c \in CategorySet \cup NameLabels : OccursAt(text, c, p) }
             end   == IF ends = {} THEN Len(text) ELSE Least(ends)
         IN  PyStripChars(PyStrip(PySlice(text, start + Len(label) + 1, end)), {Star})

\* C9 as stated: Leaf Name and Scientific Name are "N/A" when their label is
\* absent and otherwise what the category rule gives for the label, with no
\* character lost when no line break follows the label.
C9_NamesFollowCategoryRule ==
    Parsed =>
        /\ leaf_name = NameByCategoryRule(response_text, LeafNameLabel)
        /\ scientific_name = NameByCategoryRule(response_text, ScientificNameLabel)

-----------------------------------------------------------------------------
(* Properties of the session (Spec) *)

AnalyzeRunDone == pc = "idle" /\ event = "analyze_button"

\* C5: pressing Analyze while neither an uploaded file nor a captured image
\* is present shows the "no image provided" notice and nothing else, and the
\* run ends without building a payload or calling the API.
C5_NoImageNoApiCall ==
    /\ (event = "analyze_button" /\ pc # "idle") => api_calls = 0
    /\ (AnalyzeRunDone /\ uploaded_file = NoFile /\ captured_image = NoFile) =>
           /\ notices = << NoImageNotice >>
           /\ api_calls = 0
           /\ api_result = "not_called"
           /\ image_data = NoPayload
           /\ shown = {}

\* C5: Analyze pressed in camera mode after the captured image was closed
C5_AnalyzeAfterClose ==
    /\ AnalyzeRunDone
    /\ upload_method = "camera"
    /\ ~show_camera
    /\ captured_image = NoFile
    /\ notices = << NoImageNotice >>

RunStarts(e) == pc = "idle" /\ pc' = "widgets" /\ event' = e

C7_PayloadFromActiveMode ==
    (AnalyzeRunDone /\ image_data # NoPayload) =>
        /\ upload_method = "file" =>
               /\ uploaded_file # NoFile
               /\ image_data = input_image_setup(uploaded_file)
        /\ upload_method = "camera" =>
               /\ captured_image # NoFile
               /\ image_data = input_image_setup(captured_image)

\* C8: a submission whose API call raises or returns a response without a
\* text ends with the "failed to get a valid response" notice (after the API
\* error notice when the call raised), renders nothing, leaves the name and
\* category results untouched, has called the API once, and leaves the
\* session state unchanged.
C8_FailedCallEndsWithNotice ==
    [][ (pc = "submit" /\ event = "analyze_button"
             /\ api_result' \in {"raised", "no_text"}) =>
            /\ pc' = "idle"
            /\ notices' = IF api_result' = "raised"
                          THEN << ApiErrorNotice, InvalidResponseNotice >>
                          ELSE << InvalidResponseNotice >>
            /\ shown' = {}
            /\ response_dict' = EmptyDict
            /\ leaf_name' = NotAvailable
            /\ scientific_name' = NotAvailable
            /\ results' = results
            /\ api_calls' = 1
            /\ session' = session
      ]_vars

\* C8: the API returned a response without a text for an uploaded file
C8_ResponseWithoutText ==
    /\ AnalyzeRunDone
    /\ api_result = "no_text"
    /\ uploaded_file # NoFile
    /\ notices = << InvalidResponseNotice >>

\* C10: camera visibility is raised only in camera mode, and an uploaded file
\* is present only in file mode (the script's uploaded_file at any point of a
\* run, the uploader's value once the run is over).
C10_CameraOnlyInCameraMode ==
    /\ show_camera => upload_method = "camera"
    /\ uploaded_file # NoFile => upload_method = "file"
    /\ (pc = "idle" /\ file_widget # NoFile) => upload_method = "file"

\* C10: a file is uploaded in file mode while a picture captured earlier, in
\* camera mode, is still stored
C10_FileAfterCapture ==
    /\ pc = "idle"
    /\ uploaded_file # NoFile
    /\ captured_image # NoFile
    /\ upload_method = "file"
    /\ ~show_camera

====
